---- MODULE Spec2Model ----
(***************************************************************************)
(* reckt: backward search from a panic to a root of the call graph.       *)
(* Model of src/reckt.go: main's loop over the panics, pathToRoot and its  *)
(* recursive closure search, end, allrecovers and hasRecover.              *)
(***************************************************************************)
EXTENDS Integers, Sequences, FiniteSets, TLC

\* ---------------------------------------------------------------- bounds
MaxNode == 2
MaxEdges == 3
MaxDefers == 2
MaxPanics == 3
MaxBlocks == 2
MaxInstrs == 2

\* ------------------------------------------------------------ call graph
\* cg.Root; the other nodes of cg.Nodes are 1..MaxNode.
Root == 0
Nodes == 0 .. MaxNode
\* the nil *callgraph.Node: cg.Nodes[p.Parent()] of a function without a node
Nil == 0 - 1

\* The instruction an edge comes from (Edge.Site).  Its dynamic type is what
\* the type assertions of end look at: *ssa.Defer, *ssa.Go, or anything else
\* ("call": *ssa.Call, or the nil site of a synthetic edge).
Sites ==
    [kind : {"call", "go"}, id : {1}] \cup [kind : {"defer"}, id : 1 .. MaxDefers]

\* callgraph.Edge.  The root of the graph is called by nobody.
Edge == [Caller : Nodes, Callee : Nodes \ {Root}, Site : Sites]

\* ssa.Instruction, as far as hasRecover distinguishes instructions: the
\* instruction's type (op), and for a call the type of its callee value
\* and that value's name.
Instr ==
    { [op |-> "Call", vkind |-> "Builtin", name |-> "recover"],
      [op |-> "Call", vkind |-> "Builtin", name |-> "print"],
      [op |-> "Call", vkind |-> "Function", name |-> "recover"],
      [op |-> "Defer", vkind |-> "Builtin", name |-> "recover"] }

\* sequences over S of length at most n
RECURSIVE SeqUpTo(_, _)
SeqUpTo(S, n) ==
    IF n = 0 THEN {<<>>}
    ELSE LET shorter == SeqUpTo(S, n - 1)
         IN  shorter \cup {Append(s, x) : s \in {t \in shorter : Len(t) = n - 1}, x \in S}

\* ssa.Function.Blocks: a sequence of blocks, each a sequence of instructions
Block == SeqUpTo(Instr, MaxInstrs)
Body == SeqUpTo(Block, MaxBlocks)

VARIABLES
    cgIn,       \* cgIn[n]: Node.In of node n, in order
    funcs,      \* funcs[n]: the Blocks of Node.Func of node n
    pc,         \* where main is: "main", "search", "returned"
    iter,       \* panics main's loop has dealt with
    panicfunc,  \* pathToRoot's panicfunc: the node searched from, or Nil
    stack,      \* pathToRoot's stack
    seen,       \* pathToRoot's seen (the nodes mapped to true)
    frames,     \* the active calls of search, innermost last; base is history:
                \* the stack as it was when the call was made
    found,      \* the value the last call of search returned
    path,       \* main's path
    report,     \* what main printed for the last panic
    results,    \* history: what pathToRoot first returned for each node
    cg0,        \* history: the call graph as doCallgraph built it
    visits,     \* history: calls of search, classifications and expansions per
                \* node, this search
    hrBody,     \* a function body given to hasRecover on its own
    hrResult,
    hrDone

vars ==
    << cgIn, funcs, pc, iter, panicfunc, stack, seen, frames, found, path,
       report, results, cg0, visits, hrBody, hrResult, hrDone >>

\* ------------------------------------------------------------ hasRecover
\* the inner loop of hasRecover giving up at the first call that is not a
\* call of recover
RECURSIVE scanInstrs_stopAtCall(_)
scanInstrs_stopAtCall(instrs) ==
    IF instrs = <<>> THEN FALSE
    ELSE LET i == Head(instrs)
         IN  IF i.op # "Call" THEN scanInstrs_stopAtCall(Tail(instrs))
             ELSE i.vkind = "Builtin" /\ i.name = "recover"

RECURSIVE scanInstrs(_)
scanInstrs(instrs) ==
    IF instrs = <<>> THEN FALSE
    ELSE LET i == Head(instrs)
         IN  IF i.op # "Call" THEN scanInstrs(Tail(instrs))
             ELSE IF i.vkind # "Builtin" THEN scanInstrs(Tail(instrs))
             ELSE IF i.name = "recover" THEN TRUE
             ELSE scanInstrs(Tail(instrs))

\* hasRecover returning from inside its loop over the blocks
hasRecover_firstBlock(f) ==
    IF f = <<>> THEN FALSE ELSE scanInstrs(Head(f))

RECURSIVE hasRecover(_)
hasRecover(f) ==
    IF f = <<>> THEN FALSE
    ELSE IF scanInstrs(Head(f)) THEN TRUE
    ELSE hasRecover(Tail(f))

\* ----------------------------------------------------------- allrecovers
\* allrecovers content with one callee that recovers
RECURSIVE allrecovers_any(_)
allrecovers_any(o) ==
    IF o = <<>> THEN FALSE
    ELSE IF hasRecover(funcs[Head(o)]) THEN TRUE
    ELSE allrecovers_any(Tail(o))

RECURSIVE allrecovers(_)
allrecovers(o) ==
    IF o = <<>> THEN TRUE
    ELSE IF ~hasRecover(funcs[Head(o)]) THEN FALSE
    ELSE allrecovers(Tail(o))

\* ------------------------------------------------------------------- end
\* Node.Out of n: the edges whose Caller is n
RECURSIVE OutFrom(_, _)
OutFrom(n, c) ==
    IF c > MaxNode THEN <<>>
    ELSE SelectSeq(cgIn[c], LAMBDA e : e.Caller = n) \o OutFrom(n, c + 1)

Out(n) == OutFrom(n, 0)

DeferSites == {s \in Sites : s.kind = "defer"}

\* the first loop of end: defers[dn] = append(defers[dn], o.Callee)
RECURSIVE collectDefers(_, _)
collectDefers(out, defers) ==
    IF out = <<>> THEN defers
    ELSE LET o == Head(out)
         IN  IF o.Site.kind # "defer" THEN collectDefers(Tail(out), defers)
             ELSE collectDefers(Tail(out),
                                [defers EXCEPT ![o.Site] = Append(@, o.Callee)])

\* the keys of the map defers
deferKeys(defers) == {s \in DOMAIN defers : defers[s] # <<>>}

\* the second loop of end returning on the first deferred call it comes to
rangeDefers_first(defers, ord) ==
    IF ord = <<>> THEN FALSE ELSE allrecovers(defers[Head(ord)])

\* the second loop of end, over the map in the order ord
RECURSIVE rangeDefers(_, _)
rangeDefers(defers, ord) ==
    IF ord = <<>> THEN FALSE
    ELSE IF allrecovers(defers[Head(ord)]) THEN TRUE
    ELSE rangeDefers(defers, Tail(ord))

\* the third loop of end deciding on the first incoming edge alone
rangeIn_first(in) ==
    IF in = <<>> THEN FALSE ELSE Head(in).Site.kind = "go"

\* the third loop of end: an incoming edge whose site is a go statement
RECURSIVE rangeIn(_)
rangeIn(in) ==
    IF in = <<>> THEN FALSE
    ELSE IF Head(in).Site.kind = "go" THEN TRUE
    ELSE rangeIn(Tail(in))

\* the orders in which a range over a map with the keys S may run
Orders(S) ==
    {s \in [1 .. Cardinality(S) -> S] : \A i, j \in DOMAIN s : s[i] = s[j] => i = j}

\* end asking for the root and the go edges before the deferred calls
end_rootFirst(root, n, ord) ==
    IF n = Nil THEN [isend |-> TRUE, isdeadend |-> FALSE]
    ELSE IF n = root THEN [isend |-> TRUE, isdeadend |-> FALSE]
    ELSE IF rangeIn(cgIn[n]) THEN [isend |-> TRUE, isdeadend |-> FALSE]
    ELSE IF rangeDefers(collectDefers(Out(n), [s \in DeferSites |-> <<>>]), ord)
         THEN [isend |-> FALSE, isdeadend |-> TRUE]
    ELSE [isend |-> FALSE, isdeadend |-> FALSE]

end(root, n, ord) ==
    IF n = Nil THEN [isend |-> TRUE, isdeadend |-> FALSE]
    ELSE IF rangeDefers(collectDefers(Out(n), [s \in DeferSites |-> <<>>]), ord)
         THEN [isend |-> FALSE, isdeadend |-> TRUE]
    ELSE IF n = root THEN [isend |-> TRUE, isdeadend |-> FALSE]
    ELSE IF rangeIn(cgIn[n]) THEN [isend |-> TRUE, isdeadend |-> FALSE]
    ELSE [isend |-> FALSE, isdeadend |-> FALSE]

endOrders(n) ==
    IF n = Nil THEN {<<>>}
    ELSE Orders(deferKeys(collectDefers(Out(n), [s \in DeferSites |-> <<>>])))

\* ------------------------------------------------------------ pathToRoot
\* a []*callgraph.Edge value: nil, or a slice with the elements edges
NilPath == [isnil |-> TRUE, edges |-> <<>>]
Slice(s) == [isnil |-> FALSE, edges |-> s]

NoResult == [runs |-> 0, val |-> NilPath]
NoVisits ==
    [n \in Nodes \cup {Nil} |-> [entered |-> 0, classified |-> 0, expanded |-> 0]]
NoReport == [printed |-> FALSE, lines |-> <<>>]

\* search returns v: to its caller in search, or to pathToRoot and main
Return(v) ==
    IF Len(frames) = 1
    THEN /\ frames' = <<>>
         /\ pc' = "returned"
         /\ path' = v
         /\ results' = [results EXCEPT ![panicfunc] =
                            [runs |-> @.runs + 1,
                             val |-> IF @.runs = 0 THEN v ELSE @.val]]
         /\ found' = found
    ELSE /\ frames' = [SubSeq(frames, 1, Len(frames) - 1)
                          EXCEPT ![Len(frames) - 1].at = "after"]
         /\ found' = v
         /\ UNCHANGED <<pc, path, results>>

\* main's loop takes the next panic; pathToRoot makes stack and seen and
\* calls search(panicfunc)
StartSearch ==
    /\ pc = "main"
    /\ iter < MaxPanics
    /\ \E p \in Nodes \cup {Nil} :
          /\ panicfunc' = p
          /\ frames' = << [n |-> p, i |-> 0, at |-> "entry", base |-> <<>>] >>
    /\ stack' = <<>>
    /\ seen' = {}
    /\ visits' = NoVisits
    /\ pc' = "search"
    /\ UNCHANGED <<cgIn, funcs, iter, found, path, report, results, cg0,
                   hrBody, hrResult, hrDone>>

\* search without the test of seen
SearchEnter_noSeenTest ==
    /\ pc = "search"
    /\ frames # <<>>
    /\ LET fr == frames[Len(frames)]
           n == fr.n
       IN  /\ fr.at = "entry"
           /\ seen' = seen \cup {n}
           /\ \E ord \in endOrders(n) :
                 LET r == end(Root, n, ord)
                 IN  IF r.isdeadend
                     THEN /\ Return(NilPath)
                          /\ visits' = [visits EXCEPT ![n].entered = @ + 1,
                                                      ![n].classified = @ + 1]
                     ELSE IF r.isend
                     THEN /\ Return(Slice(stack))
                          /\ visits' = [visits EXCEPT ![n].entered = @ + 1,
                                                      ![n].classified = @ + 1]
                     ELSE /\ frames' = [frames EXCEPT ![Len(frames)] =
                                           [n |-> n, i |-> 1, at |-> "loop", base |-> fr.base]]
                          /\ visits' = [visits EXCEPT ![n].entered = @ + 1,
                                                      ![n].classified = @ + 1,
                                                      ![n].expanded = @ + 1]
                          /\ UNCHANGED <<pc, path, results, found>>
    /\ UNCHANGED <<cgIn, funcs, iter, panicfunc, stack, report, cg0,
                   hrBody, hrResult, hrDone>>

\* search(n) up to its loop: the seen test and mark, and the call of end
SearchEnter ==
    /\ pc = "search"
    /\ frames # <<>>
    /\ LET fr == frames[Len(frames)]
           n == fr.n
       IN  /\ fr.at = "entry"
           /\ IF n \in seen
              THEN /\ Return(NilPath)
                   /\ visits' = [visits EXCEPT ![n].entered = @ + 1]
                   /\ UNCHANGED seen
              ELSE /\ seen' = seen \cup {n}
                   /\ \E ord \in endOrders(n) :
                         LET r == end(Root, n, ord)
                         IN  IF r.isdeadend
                             THEN /\ Return(NilPath)
                                  /\ visits' = [visits EXCEPT ![n].entered = @ + 1,
                                                      ![n].classified = @ + 1]
                             ELSE IF r.isend
                             THEN /\ Return(Slice(stack))
                                  /\ visits' = [visits EXCEPT ![n].entered = @ + 1,
                                                      ![n].classified = @ + 1]
                             ELSE /\ frames' = [frames EXCEPT ![Len(frames)] =
                                                   [n |-> n, i |-> 1, at |-> "loop", base |-> fr.base]]
                                  /\ visits' = [visits EXCEPT ![n].entered = @ + 1,
                                                      ![n].classified = @ + 1,
                                                              ![n].expanded = @ + 1]
                                  /\ UNCHANGED <<pc, path, results, found>>
    /\ UNCHANGED <<cgIn, funcs, iter, panicfunc, stack, report, cg0,
                   hrBody, hrResult, hrDone>>

\* the loop over n.In marking e.Caller seen when it pushes the edge
SearchLoop_markAtPush ==
    /\ pc = "search"
    /\ frames # <<>>
    /\ LET fr == frames[Len(frames)]
       IN  /\ fr.at = "loop"
           /\ IF fr.i <= Len(cgIn[fr.n])
              THEN LET e == cgIn[fr.n][fr.i]
                   IN  /\ stack' = Append(stack, e)
                       /\ seen' = seen \cup {e.Caller}
                       /\ frames' = Append([frames EXCEPT ![Len(frames)].at = "call"],
                                           [n |-> e.Caller, i |-> 0, at |-> "entry",
                                            base |-> Append(stack, e)])
                       /\ UNCHANGED <<pc, path, results, found>>
              ELSE /\ Return(NilPath)
                   /\ UNCHANGED <<stack, seen>>
    /\ UNCHANGED <<cgIn, funcs, iter, panicfunc, visits, report, cg0,
                   hrBody, hrResult, hrDone>>

\* the loop over n.In calling search(e.Caller) without the push
SearchLoop_noPush ==
    /\ pc = "search"
    /\ frames # <<>>
    /\ LET fr == frames[Len(frames)]
       IN  /\ fr.at = "loop"
           /\ IF fr.i <= Len(cgIn[fr.n])
              THEN LET e == cgIn[fr.n][fr.i]
                   IN  /\ stack' = stack
                       /\ frames' = Append([frames EXCEPT ![Len(frames)].at = "call"],
                                           [n |-> e.Caller, i |-> 0, at |-> "entry",
                                            base |-> stack])
                       /\ UNCHANGED <<pc, path, results, found>>
              ELSE /\ Return(NilPath)
                   /\ UNCHANGED stack
    /\ UNCHANGED <<cgIn, funcs, iter, panicfunc, seen, visits, report, cg0,
                   hrBody, hrResult, hrDone>>

\* the loop over n.In giving up after the first incoming edge
SearchLoop_firstEdgeOnly ==
    /\ pc = "search"
    /\ frames # <<>>
    /\ LET fr == frames[Len(frames)]
       IN  /\ fr.at = "loop"
           /\ IF fr.i <= Len(cgIn[fr.n]) /\ fr.i = 1
              THEN LET e == cgIn[fr.n][fr.i]
                   IN  /\ stack' = Append(stack, e)
                       /\ frames' = Append([frames EXCEPT ![Len(frames)].at = "call"],
                                           [n |-> e.Caller, i |-> 0, at |-> "entry",
                                            base |-> Append(stack, e)])
                       /\ UNCHANGED <<pc, path, results, found>>
              ELSE /\ Return(NilPath)
                   /\ UNCHANGED stack
    /\ UNCHANGED <<cgIn, funcs, iter, panicfunc, seen, visits, report, cg0,
                   hrBody, hrResult, hrDone>>

\* the head of the loop over n.In: push the edge and call search(e.Caller),
\* or fall out of the loop and return nil
SearchLoop ==
    /\ pc = "search"
    /\ frames # <<>>
    /\ LET fr == frames[Len(frames)]
       IN  /\ fr.at = "loop"
           /\ IF fr.i <= Len(cgIn[fr.n])
              THEN LET e == cgIn[fr.n][fr.i]
                   IN  /\ stack' = Append(stack, e)
                       /\ frames' = Append([frames EXCEPT ![Len(frames)].at = "call"],
                                           [n |-> e.Caller, i |-> 0, at |-> "entry",
                                            base |-> Append(stack, e)])
                       /\ UNCHANGED <<pc, path, results, found>>
              ELSE /\ Return(NilPath)
                   /\ UNCHANGED stack
    /\ UNCHANGED <<cgIn, funcs, iter, panicfunc, seen, visits, report, cg0,
                   hrBody, hrResult, hrDone>>

\* search going on to the next incoming edge without the pop
SearchAfter_noPop ==
    /\ pc = "search"
    /\ frames # <<>>
    /\ LET fr == frames[Len(frames)]
       IN  /\ fr.at = "after"
           /\ IF ~found.isnil
              THEN Return(Slice(stack))
              ELSE /\ frames' = [frames EXCEPT ![Len(frames)] =
                                    [n |-> fr.n, i |-> fr.i + 1, at |-> "loop",
                                     base |-> fr.base]]
                   /\ UNCHANGED <<pc, path, results, found>>
    /\ UNCHANGED <<cgIn, funcs, iter, panicfunc, stack, seen, visits, report, cg0,
                   hrBody, hrResult, hrDone>>

\* search going on to the remaining incoming edges after a call that found
\* a path
SearchAfter_keepLooking ==
    /\ pc = "search"
    /\ frames # <<>>
    /\ LET fr == frames[Len(frames)]
       IN  /\ fr.at = "after"
           /\ IF ~found.isnil /\ fr.i = Len(cgIn[fr.n])
              THEN /\ Return(Slice(stack))
                   /\ UNCHANGED stack
              ELSE /\ stack' = SubSeq(stack, 1, Len(stack) - 1)
                   /\ frames' = [frames EXCEPT ![Len(frames)] =
                                    [n |-> fr.n, i |-> fr.i + 1, at |-> "loop",
                                     base |-> fr.base]]
                   /\ UNCHANGED <<pc, path, results, found>>
    /\ UNCHANGED <<cgIn, funcs, iter, panicfunc, seen, visits, report, cg0,
                   hrBody, hrResult, hrDone>>

\* the recursive call has returned: return stack, or pop and go on
SearchAfter ==
    /\ pc = "search"
    /\ frames # <<>>
    /\ LET fr == frames[Len(frames)]
       IN  /\ fr.at = "after"
           /\ IF ~found.isnil
              THEN /\ Return(Slice(stack))
                   /\ UNCHANGED stack
              ELSE /\ stack' = SubSeq(stack, 1, Len(stack) - 1)
                   /\ frames' = [frames EXCEPT ![Len(frames)] =
                                    [n |-> fr.n, i |-> fr.i + 1, at |-> "loop",
                                     base |-> fr.base]]
                   /\ UNCHANGED <<pc, path, results, found>>
    /\ UNCHANGED <<cgIn, funcs, iter, panicfunc, seen, visits, report, cg0,
                   hrBody, hrResult, hrDone>>

\* The closure search as a function of the graph (In: the In list of every
\* node) and of what end says of every node (cls: "dead" for deadend, "end"
\* for end, "pass" for neither).  A call gets the stack and the seen map
\* as they are and gives them back as it leaves them, with its result.
Classes == {"dead", "end", "pass"}

RECURSIVE search(_, _, _, _, _)
RECURSIVE searchEdges(_, _, _, _, _, _)

\* the loop over n.In from its i-th edge on
searchEdges(In, cls, n, i, stk, sn) ==
    IF i > Len(In[n])
    THEN [found |-> NilPath, stack |-> stk, seen |-> sn]
    ELSE LET e == In[n][i]
             r == search(In, cls, e.Caller, Append(stk, e), sn)
         IN  IF ~r.found.isnil
             THEN [found |-> Slice(r.stack), stack |-> r.stack, seen |-> r.seen]
             ELSE searchEdges(In, cls, n, i + 1,
                              SubSeq(r.stack, 1, Len(r.stack) - 1), r.seen)

search(In, cls, n, stk, sn) ==
    IF n \in sn
    THEN [found |-> NilPath, stack |-> stk, seen |-> sn]
    ELSE IF cls[n] = "dead"
    THEN [found |-> NilPath, stack |-> stk, seen |-> sn \cup {n}]
    ELSE IF cls[n] = "end"
    THEN [found |-> Slice(stk), stack |-> stk, seen |-> sn \cup {n}]
    ELSE searchEdges(In, cls, n, 1, stk, sn \cup {n})

\* pathToRoot: search(panicfunc) on the empty stack with nothing seen
pathToRoot(In, cls, p) == search(In, cls, p, <<>>, {}).found

\* what end says of every node of the graph at hand; the nil node is an end
endClass ==
    [n \in Nodes \cup {Nil} |->
        LET r == end(Root, n, CHOOSE ord \in endOrders(n) : TRUE)
        IN  IF r.isdeadend THEN "dead" ELSE IF r.isend THEN "end" ELSE "pass"]

\* main: if len(path) != 0, print the panic and the edges of path
Report ==
    /\ pc = "returned"
    /\ report' = IF Len(path.edges) # 0
                 THEN [printed |-> TRUE, lines |-> path.edges]
                 ELSE NoReport
    /\ iter' = iter + 1
    /\ pc' = "main"
    /\ UNCHANGED <<cgIn, funcs, panicfunc, stack, seen, frames, found, path,
                   results, cg0, visits, hrBody, hrResult, hrDone>>

\* ------------------------------------------------------------------ Init
\* the graphs: at most MaxEdges edges, no edge twice
EdgeSeqs ==
    {s \in SeqUpTo(Edge, MaxEdges) : \A i, j \in DOMAIN s : s[i] = s[j] => i = j}

InOf(es) == [n \in Nodes |-> SelectSeq(es, LAMBDA e : e.Callee = n)]

Graphs == {InOf(es) : es \in EdgeSeqs}

\* the function bodies of the nodes of a graph
PlainBody == << <<[op |-> "Call", vkind |-> "Builtin", name |-> "print"]>> >>
RecoverBody ==
    << <<[op |-> "Call", vkind |-> "Function", name |-> "recover"]>>,
       <<[op |-> "Call", vkind |-> "Builtin", name |-> "recover"]>> >>

Funcs ==
    {f \in [Nodes -> {PlainBody, RecoverBody}] : f[Root] = PlainBody}

Init ==
    /\ cgIn \in Graphs
    /\ funcs \in Funcs
    /\ pc = "main"
    /\ iter = 0
    /\ panicfunc = Nil
    /\ stack = <<>>
    /\ seen = {}
    /\ frames = <<>>
    /\ found = NilPath
    /\ path = NilPath
    /\ report = NoReport
    /\ results = [n \in Nodes \cup {Nil} |-> NoResult]
    /\ cg0 = [In |-> cgIn, funcs |-> funcs]
    /\ visits = NoVisits
    /\ hrBody = <<>>
    /\ hrResult = FALSE
    /\ hrDone = FALSE

\* hasRecover applied to a function body on its own
InitHR ==
    /\ cgIn = [n \in Nodes |-> <<>>]
    /\ funcs = [n \in Nodes |-> PlainBody]
    /\ pc = "main"
    /\ iter = 0
    /\ panicfunc = Nil
    /\ stack = <<>>
    /\ seen = {}
    /\ frames = <<>>
    /\ found = NilPath
    /\ path = NilPath
    /\ report = NoReport
    /\ results = [n \in Nodes \cup {Nil} |-> NoResult]
    /\ cg0 = [In |-> cgIn, funcs |-> funcs]
    /\ visits = NoVisits
    /\ hrBody \in Body
    /\ hrResult = FALSE
    /\ hrDone = FALSE

ApplyHasRecover ==
    /\ ~hrDone
    /\ hrResult' = hasRecover(hrBody)
    /\ hrDone' = TRUE
    /\ UNCHANGED <<cgIn, funcs, pc, iter, panicfunc, stack, seen, frames, found,
                   path, report, results, cg0, visits, hrBody>>

NextHR == ApplyHasRecover

SpecHR == InitHR /\ [][NextHR]_vars

SearchStep == SearchEnter \/ SearchLoop \/ SearchAfter

Next ==
    \/ StartSearch
    \/ SearchEnter
    \/ SearchLoop
    \/ SearchAfter
    \/ Report

Spec == Init /\ [][Next]_vars

\* One call of pathToRoot, for the first panic of main's loop.
FirstPanic == iter = 0 /\ Next

SearchSpec == Init /\ [][FirstPanic]_vars

\* search runs to completion once called: nothing else runs in the program
FairSpec == SearchSpec /\ WF_vars(SearchStep)

\* ======================================================================
\* The vocabulary of the claims, stated over the graph and not by the code
\* ======================================================================
AllEdges == UNION {{cgIn[n][i] : i \in DOMAIN cgIn[n]} : n \in Nodes}

\* f holds a call instruction whose callee value is the built-in recover
ContainsRecoverCall(f) ==
    \E b \in DOMAIN f : \E i \in DOMAIN f[b] :
        /\ f[b][i].op = "Call"
        /\ f[b][i].vkind = "Builtin"
        /\ f[b][i].name = "recover"

SiteEdges(n, s) == {e \in AllEdges : e.Caller = n /\ e.Site = s}

\* the deferred call site s of n: all its callees contain a recover call
SuppressingSite(n, s) ==
    /\ s.kind = "defer"
    /\ SiteEdges(n, s) # {}
    /\ \A e \in SiteEdges(n, s) : ContainsRecoverCall(funcs[e.Callee])

DeadEndNode(n) == n \in Nodes /\ \E s \in Sites : SuppressingSite(n, s)

HasGoIn(n) == \E e \in AllEdges : e.Callee = n /\ e.Site.kind = "go"

SuccessNode(n) == n = Nil \/ (~DeadEndNode(n) /\ (n = Root \/ HasGoIn(n)))

\* the nodes reached from p backwards over incoming edges, through nodes of
\* Allowed only
RECURSIVE BackClosure(_, _)
BackClosure(S, Allowed) ==
    LET more == {e.Caller : e \in {x \in AllEdges : x.Callee \in S}} \cap Allowed
    IN  IF more \subseteq S THEN S ELSE BackClosure(S \cup more, Allowed)

BackReach(p, Allowed) == IF p \in Allowed THEN BackClosure({p}, Allowed) ELSE {}

\* the nodes of a witness found from p, from the raise site outward
WitnessNodes(p, edges) == <<p>> \o [i \in DOMAIN edges |-> edges[i].Caller]

SearchOver == pc = "returned" \/ (pc = "main" /\ iter > 0)
Reported == pc = "main" /\ iter > 0

\* ======================================================================
\* C1
\* ======================================================================
\* C1: when the raise site's function is the Root node and the Root is no
\* dead end, pathToRoot returns a non-nil witness of length 0 or 1 and main
\* reports the raise site as reaching a root.
C1_RootRaiseReported ==
    (Reported /\ panicfunc = Root /\ ~DeadEndNode(Root)) =>
        (~path.isnil /\ Len(path.edges) <= 1 /\ report.printed)

\* ======================================================================
\* C2
\* ======================================================================
Target(n) == n = Root \/ HasGoIn(n)
NonDeadEnd == {n \in Nodes : ~DeadEndNode(n)}

\* every backward chain from p to the Root or to a spawned node passes
\* through a dead end (p and the node it ends at being on the chain)
AllChainsSuppressed(p) == \A t \in BackReach(p, NonDeadEnd) : ~Target(t)

\* C2: if every backward chain from the raise site's node to the Root or to
\* a node with an incoming go edge passes through a dead-end node, then
\* pathToRoot returns nil and main prints nothing for the raise site.
C2_SuppressedNoPath ==
    (SearchOver /\ panicfunc \in Nodes /\ AllChainsSuppressed(panicfunc)) =>
        (path.isnil /\ (Reported => ~report.printed))

\* a search that went from a raise site which is no dead end itself into a
\* dead end, in a graph where the Root does call down to the raise site
C2_Witness ==
    /\ Reported
    /\ panicfunc \in Nodes
    /\ AllChainsSuppressed(panicfunc)
    /\ ~DeadEndNode(panicfunc)
    /\ \E n \in seen : DeadEndNode(n)
    /\ Root \in BackReach(panicfunc, Nodes)
    /\ path.isnil

\* ======================================================================
\* C3
\* ======================================================================
\* the backward chains of edges from p to the Root that visit no node twice
IsChain(p, c) ==
    /\ c # <<>>
    /\ c[1].Callee = p
    /\ c[Len(c)].Caller = Root
    /\ \A i \in 1 .. Len(c) - 1 : c[i].Caller = c[i + 1].Callee
    /\ \A i, j \in DOMAIN c : c[i].Callee = c[j].Callee => i = j

Chains(p) == {c \in SeqUpTo(AllEdges, MaxNode) : IsChain(p, c)}

\* c crosses a go edge, and no node of c up to and including the callee of
\* its first go edge is a dead end
CrossesSpawnClean(c) ==
    \E j \in DOMAIN c :
        /\ c[j].Site.kind = "go"
        /\ \A i \in 1 .. j - 1 : c[i].Site.kind # "go"
        /\ \A i \in 1 .. j : ~DeadEndNode(c[i].Callee)

OnlyThroughSpawn(p) ==
    /\ p \in Nodes
    /\ Chains(p) # {}
    /\ \A c \in Chains(p) : CrossesSpawnClean(c)

\* the graph Root -go-> 1 -call-> 2
SpawnExample ==
    /\ cgIn[1] = << [Caller |-> Root, Callee |-> 1, Site |-> [kind |-> "go", id |-> 1]] >>
    /\ cgIn[2] = << [Caller |-> 1, Callee |-> 2, Site |-> [kind |-> "call", id |-> 1]] >>
    /\ \A n \in Nodes \ {1, 2} : cgIn[n] = <<>>

\* the node a witness found from p stops at
Boundary(p, w) == IF w = <<>> THEN p ELSE w[Len(w)].Caller

SpawnWitnessShape(p, w) ==
    /\ HasGoIn(Boundary(p, w))
    /\ \A ord \in endOrders(Boundary(p, w)) :
          end(Root, Boundary(p, w), ord) = [isend |-> TRUE, isdeadend |-> FALSE]
    /\ \A i \in DOMAIN w :
          /\ w[i].Site.kind # "go"
          /\ w[i].Caller # Root
          /\ w[i].Callee # Root
    /\ (SpawnExample /\ p = 2) =>
          w = << [Caller |-> 1, Callee |-> 2, Site |-> [kind |-> "call", id |-> 1]] >>

\* C3 as stated: the node with the incoming go edge is the Caller of the
\* last witness edge.
C3_StopsAtSpawnCallee ==
    (pc = "returned" /\ OnlyThroughSpawn(panicfunc)) =>
        /\ ~path.isnil
        /\ path.edges # <<>>
        /\ SpawnWitnessShape(panicfunc, path.edges)

\* C3: when every backward chain from the raise site to the Root crosses a
\* go edge, with no dead end up to and including that edge's callee, then
\* pathToRoot returns a non-nil witness that stops at the callee of a go
\* edge: that node is classified success, no go edge and not the Root is in
\* the witness, and the node is the Caller of the last witness edge, unless
\* it is the raise site's own node, when the witness is the empty slice.
C3_StopsAtSpawnCalleeOrEmpty ==
    (pc = "returned" /\ OnlyThroughSpawn(panicfunc)) =>
        /\ ~path.isnil
        /\ (path.edges = <<>>) <=> HasGoIn(panicfunc)
        /\ SpawnWitnessShape(panicfunc, path.edges)

C3_Witness ==
    /\ pc = "returned"
    /\ SpawnExample
    /\ panicfunc = 2
    /\ OnlyThroughSpawn(panicfunc)
    /\ Len(path.edges) = 1

\* ======================================================================
\* C4
\* ======================================================================
\* C4: a node with a deferred call site all of whose callees contain a
\* recover call is classified (false, true) by end, also when it is the Root
\* or has an incoming go edge, and no witness pathToRoot returns ends at or
\* passes through such a node.
C4_SuppressionWins ==
    /\ \A n \in Nodes :
          DeadEndNode(n) =>
              \A ord \in endOrders(n) :
                  end(Root, n, ord) = [isend |-> FALSE, isdeadend |-> TRUE]
    /\ (SearchOver /\ ~path.isnil) =>
          \A i \in DOMAIN WitnessNodes(panicfunc, path.edges) :
              ~DeadEndNode(WitnessNodes(panicfunc, path.edges)[i])

\* a search that went up an edge into a dead end which is the Root or the
\* callee of a go edge
C4_Witness ==
    /\ pc = "returned"
    /\ \E n \in seen \ {panicfunc} : DeadEndNode(n) /\ (n = Root \/ HasGoIn(n))
    /\ path.isnil

\* ======================================================================
\* C5
\* ======================================================================
\* the graph Root -call-> 1 -call-> 2
LineExample ==
    /\ cgIn[1] = << [Caller |-> Root, Callee |-> 1, Site |-> [kind |-> "call", id |-> 1]] >>
    /\ cgIn[2] = << [Caller |-> 1, Callee |-> 2, Site |-> [kind |-> "call", id |-> 1]] >>
    /\ \A n \in Nodes \ {1, 2} : cgIn[n] = <<>>

ConnectedChain(p, w) ==
    /\ w[1].Callee = p
    /\ \A i \in DOMAIN w : w[i] \in AllEdges
    /\ \A i \in 1 .. Len(w) - 1 : w[i].Caller = w[i + 1].Callee

\* C5: a non-empty witness is a connected chain from the raise site's node
\* outward; the Caller of its last edge is classified success and no other
\* node of the chain is; no node of the chain is a dead end or occurs twice;
\* for Root -> 1 -> 2 with the raise in 2 the witness is the edge from 1 to 2
\* followed by the edge from the Root to 1.
C5_WitnessIsChain ==
    (pc = "returned" /\ ~path.isnil /\ path.edges # <<>>) =>
        LET w == path.edges
            ns == WitnessNodes(panicfunc, w)
        IN  /\ ConnectedChain(panicfunc, w)
            /\ SuccessNode(ns[Len(ns)])
            /\ \A i \in 1 .. Len(ns) - 1 : ~SuccessNode(ns[i])
            /\ \A i \in DOMAIN ns : ~DeadEndNode(ns[i])
            /\ \A i, j \in DOMAIN ns : ns[i] = ns[j] => i = j
            /\ (LineExample /\ panicfunc = 2) =>
                  w = << [Caller |-> 1, Callee |-> 2, Site |-> [kind |-> "call", id |-> 1]],
                         [Caller |-> Root, Callee |-> 1, Site |-> [kind |-> "call", id |-> 1]] >>

\* a witness of two edges found after the search backed out of another edge
C5_Witness ==
    /\ pc = "returned"
    /\ ~path.isnil
    /\ Len(path.edges) = 2
    /\ path.edges[1] # cgIn[panicfunc][1]

\* ======================================================================
\* C6
\* ======================================================================
\* C6: for an absent node end returns (true, false), and a raise site whose
\* function has no node is not dropped: pathToRoot's result is a success and
\* main reports it.
C6_AbsentNodeReported ==
    /\ end(Root, Nil, <<>>) = [isend |-> TRUE, isdeadend |-> FALSE]
    /\ (SearchOver /\ panicfunc = Nil) => ~path.isnil
    /\ (Reported /\ panicfunc = Nil) => report.printed

\* ======================================================================
\* C7
\* ======================================================================
\* within one search: no node is classified or expanded twice, the marked
\* nodes are the classified ones, and the calls of search in progress are
\* the expanded nodes and at most one more
SearchCounts ==
    /\ \A n \in Nodes \cup {Nil} :
          visits[n].classified <= 1 /\ visits[n].expanded <= 1
    /\ seen = {n \in Nodes \cup {Nil} : visits[n].classified = 1}
    /\ Cardinality({n \in Nodes \cup {Nil} : visits[n].expanded = 1}) <= Cardinality(Nodes)
    /\ Len(frames) <= Cardinality(Nodes) + 1

\* C7: every call of pathToRoot returns, on graphs with cycles and
\* self-recursion too, and during a search each node is marked, classified
\* and expanded at most once, so the expansions number at most the nodes.
C7_SearchTerminates ==
    /\ []SearchCounts
    /\ [](pc = "search" => <>(pc = "returned"))

\* a search from a self-recursive function that came back to it
C7_Witness ==
    /\ pc = "returned"
    /\ panicfunc \in Nodes
    /\ \E e \in AllEdges : e.Caller = panicfunc /\ e.Callee = panicfunc
    /\ visits[panicfunc].expanded = 1
    /\ \E n \in Nodes \ {panicfunc} : visits[n].expanded = 1

\* ======================================================================
\* C8
\* ======================================================================
\* C8: for a present node, end reports a dead end exactly when some deferred
\* call instruction of the node has outgoing edges all of whose callees
\* contain a recover call, in whatever order it ranges over the deferred
\* calls: a deferred call with a callee that does not recover does not count,
\* one fully recovering deferred call is enough, other sites are ignored.
C8_DeadEndIffSuppressingSite ==
    \A n \in Nodes :
        \A ord \in endOrders(n) :
            end(Root, n, ord).isdeadend <=> DeadEndNode(n)

\* end has classified a dead end that has a second deferred call which does
\* not suppress, in a graph where a node that is no dead end calls, not
\* deferred, a function that recovers
C8_Witness ==
    /\ pc = "returned"
    /\ \E n \in seen \cap Nodes :
          /\ DeadEndNode(n)
          /\ \E s \in DeferSites : SiteEdges(n, s) # {} /\ ~SuppressingSite(n, s)
    /\ \E e \in AllEdges :
          /\ e.Site.kind # "defer"
          /\ ~DeadEndNode(e.Caller)
          /\ ContainsRecoverCall(funcs[e.Callee])

\* ======================================================================
\* C9
\* ======================================================================
\* C9: pathToRoot returns for a raise site's node what it returned for that
\* node the first time, whatever was searched in between and in whatever
\* order end ranged over the deferred calls; each search starts with an
\* empty stack and an empty seen, and the call graph stays as it was built.
C9_Deterministic ==
    /\ cgIn = cg0.In
    /\ funcs = cg0.funcs
    /\ (pc = "search" /\ Len(frames) = 1 /\ frames[1].at = "entry") =>
          (stack = <<>> /\ seen = {})
    /\ pc = "returned" => path = results[panicfunc].val

\* the third search, from the node of the first, after a search from
\* another node; it found a path and classified a node with two deferred calls
C9_Witness ==
    /\ pc = "returned"
    /\ iter = 2
    /\ results[panicfunc].runs = 2
    /\ \E n \in Nodes \ {panicfunc} : results[n].runs = 1
    /\ path.edges # <<>>
    /\ \E n \in seen \cap Nodes : Cardinality(endOrders(n)) = 2

\* ======================================================================
\* C10
\* ======================================================================
\* C10: hasRecover(f) is true exactly when some instruction of some block of
\* f is a call whose callee value is the built-in recover, wherever it is
\* and whatever comes after it; it is false for a function without blocks.
C10_HasRecoverIffRecoverCall ==
    hrDone =>
        /\ hrResult <=> ContainsRecoverCall(hrBody)
        /\ hrBody = <<>> => ~hrResult

\* the recover call is the last instruction of the last block, after a
\* deferred recover that is no call
C10_Witness ==
    /\ hrDone
    /\ hrResult
    /\ Len(hrBody) = 2
    /\ ~ContainsRecoverCall(<<hrBody[1]>>)
    /\ Len(hrBody[2]) = 2
    /\ hrBody[2][1].op = "Defer"
    /\ hrBody[2][2].name = "recover"

\* ======================================================================
\* C11
\* the pass-through nodes reached backwards from the nodes of S over
\* incoming edges, in the graph In classified by cls
RECURSIVE passClosure(_, _, _)
passClosure(In, cls, S) ==
    LET callers == UNION {{In[n][i].Caller : i \in DOMAIN In[n]} : n \in S}
        more == {c \in callers : cls[c] = "pass"}
    IN  IF more \subseteq S THEN S ELSE passClosure(In, cls, S \cup more)

\* p is a pass-through node, and a chain of incoming edges leads from p
\* through pass-through nodes to a node classified success
chainToEnd(In, cls, p) ==
    /\ p \in Nodes
    /\ cls[p] = "pass"
    /\ \E n \in passClosure(In, cls, {p}) :
           \E i \in DOMAIN In[n] : cls[In[n][i].Caller] = "end"

\* C11 as stated: among the call graphs (the one at hand and every other
\* one), the classifications of their nodes and the raise sites in a
\* pass-through node, there is one for which pathToRoot returns 'no path'
\* although a chain through pass-through nodes to a success node exists.
C11_FalseNegativeExists ==
    \E In \in {cgIn} \cup Graphs : \E cls \in [Nodes -> Classes] : \E p \in Nodes :
        /\ chainToEnd(In, cls, p)
        /\ pathToRoot(In, cls, p).isnil

\* C11 (amended): the shared visited set costs no completeness.  Whenever a
\* search for a raise site in a pass-through node returns, and a chain of
\* incoming edges through pass-through nodes to a success node exists, the
\* result is a path; and the result is the one that the search computes as
\* a function of the graph and of the classification of its nodes alone.
C11_NoFalseNegative ==
    (pc = "returned" /\ panicfunc \in Nodes) =>
        /\ path = pathToRoot(cgIn, endClass, panicfunc)
        /\ chainToEnd(cgIn, endClass, panicfunc) => ~path.isnil

\* a search that met a pass-through node x in a context that failed (x is
\* seen and is not on the witness, although a chain from x to a success
\* node exists), met a seen node again, and still returned a path
C11_Witness ==
    /\ pc = "returned"
    /\ chainToEnd(cgIn, endClass, panicfunc)
    /\ ~path.isnil
    /\ \E n \in Nodes : visits[n].entered > 1
    /\ \E x \in seen :
          /\ chainToEnd(cgIn, endClass, x)
          /\ visits[x].expanded = 1
          /\ \A i \in DOMAIN WitnessNodes(panicfunc, path.edges) :
                 WitnessNodes(panicfunc, path.edges)[i] # x

\* ======================================================================
\* C12
\* a call of search is at its entry: nothing of its body has run
AtEntry == pc = "search" /\ frames # <<>> /\ frames[Len(frames)].at = "entry"

\* the step is a return of nil by the innermost call of search
NilReturn ==
    /\ pc = "search"
    /\ frames # <<>>
    /\ Len(frames') < Len(frames)
    /\ IF Len(frames) = 1 THEN path'.isnil ELSE found'.isnil

\* the stack after a return of nil is the stack at the entry of that call
NilReturnRestores == NilReturn => stack' = frames[Len(frames)].base

\* C12 as stated: at every entry to search(n) the stack is empty when n is
\* the raise site's node and otherwise a connected chain of edges from the
\* raise site's node whose last edge has the Caller n; and whenever
\* search(n) returns nil the stack is what it was at that entry.
C12_PushPopSymmetry ==
    /\ [](AtEntry =>
            LET n == frames[Len(frames)].n
            IN  IF n = panicfunc
                THEN stack = <<>>
                ELSE /\ stack # <<>>
                     /\ ConnectedChain(panicfunc, stack)
                     /\ stack[Len(stack)].Caller = n)
    /\ [][NilReturnRestores]_vars

\* C12 (amended): the stack is empty at the entry of the first call,
\* search(panicfunc); at the entry of every other call search(n), a call
\* of the raise site's node through a cycle included, it is a non-empty
\* connected chain of edges from the raise site's node whose last edge has
\* the Caller n; and whenever search(n) returns nil the stack is what it
\* was at that entry.
C12_PushPopSymmetryPerCall ==
    /\ [](AtEntry =>
            LET n == frames[Len(frames)].n
            IN  /\ stack = frames[Len(frames)].base
                /\ IF Len(frames) = 1
                   THEN stack = <<>> /\ n = panicfunc
                   ELSE /\ stack # <<>>
                        /\ ConnectedChain(panicfunc, stack)
                        /\ stack[Len(stack)].Caller = n)
    /\ [][NilReturnRestores]_vars

\* the raise site's node, called again through a cycle of two edges, has
\* returned nil to its caller, and the stack is the two edges it was
\* entered with
C12_Witness ==
    /\ pc = "search"
    /\ frames # <<>>
    /\ frames[Len(frames)].at = "after"
    /\ found.isnil
    /\ visits[panicfunc].entered = 2
    /\ Len(stack) = 2
    /\ stack[2].Caller = panicfunc
    /\ stack = Append(frames[Len(frames)].base,
                      cgIn[frames[Len(frames)].n][frames[Len(frames)].i])

\* ======================================================================
\* C13
\* the nodes that this search has classified success
SuccessSeen == {n \in seen : endClass[n] = "end"}

\* a node has been classified success and the search has not returned yet
Unwinding == pc = "search" /\ SuccessSeen # {}

\* what a step of an unwinding search does: the innermost call returns the
\* stack, and nothing is classified, marked, pushed or popped
UnwindStep ==
    Unwinding =>
        /\ seen' = seen
        /\ visits' = visits
        /\ stack' = stack
        /\ Len(frames') = Len(frames) - 1
        /\ IF Len(frames) = 1
           THEN pc' = "returned" /\ path' = Slice(stack)
           ELSE pc' = "search" /\ found' = Slice(stack)

\* C13: once a node is classified success, success propagates to the top
\* at once: every call still active is waiting for the call it made (none
\* is at the head of its loop or at its entry) and has been handed the
\* stack, every further step is a return of the unchanged stack with
\* nothing classified, marked, pushed or popped, no second node is
\* classified success, and the result is the stack as it stood at the
\* classification, the first path in depth-first order of the In lists.
C13_SuccessPropagates ==
    /\ [](Unwinding =>
            /\ Cardinality(SuccessSeen) = 1
            /\ found = Slice(stack)
            /\ \A k \in DOMAIN frames :
                   frames[k].at = IF k = Len(frames) THEN "after" ELSE "call")
    /\ []((pc = "returned" /\ SuccessSeen # {}) =>
            /\ Cardinality(SuccessSeen) = 1
            /\ path = Slice(stack)
            /\ path = pathToRoot(cgIn, endClass, panicfunc))
    /\ [][UnwindStep]_vars

\* a search that is returning a path of two edges while a call on the path
\* has an incoming edge left that it has not explored
C13_Witness ==
    /\ Unwinding
    /\ Len(stack) = 2
    /\ \E k \in DOMAIN frames : frames[k].i < Len(cgIn[frames[k].n])

\* ======================================================================
\* C14
\* The algorithm of the specification, on the graph In classified by cls:
\* classify the node first (dead end: no path; success: the stack), only
\* then test the visited mark (visited: no path) and set it, and try the
\* incoming edges in order, pushing before and popping after each failure.
RECURSIVE specSearch(_, _, _, _, _)
RECURSIVE specSearchEdges(_, _, _, _, _, _)

specSearchEdges(In, cls, n, i, stk, visited) ==
    IF i > Len(In[n])
    THEN [found |-> NilPath, stack |-> stk, seen |-> visited]
    ELSE LET e == In[n][i]
             r == specSearch(In, cls, e.Caller, Append(stk, e), visited)
         IN  IF ~r.found.isnil
             THEN r
             ELSE specSearchEdges(In, cls, n, i + 1,
                                  SubSeq(r.stack, 1, Len(r.stack) - 1), r.seen)

specSearch(In, cls, n, stk, visited) ==
    IF cls[n] = "dead"
    THEN [found |-> NilPath, stack |-> stk, seen |-> visited]
    ELSE IF cls[n] = "end"
    THEN [found |-> Slice(stk), stack |-> stk, seen |-> visited]
    ELSE IF n \in visited
    THEN [found |-> NilPath, stack |-> stk, seen |-> visited]
    ELSE specSearchEdges(In, cls, n, 1, stk, visited \cup {n})

\* C14: whenever the implemented search returns, its result is the result
\* of the specified algorithm on the same graph and raise site (the same
\* path, or 'no path' for both); the stack is left the same; and the nodes
\* that the specified algorithm has marked are the pass-through nodes
\* among the nodes that the implementation has marked.
C14_SameAsSpecified ==
    pc = "returned" =>
        LET r == specSearch(cgIn, endClass, panicfunc, <<>>, {})
        IN  /\ path = r.found
            /\ stack = r.stack
            /\ r.seen = {n \in seen : endClass[n] = "pass"}

\* a search that returned a path after it met a dead-end node twice (the
\* second time the implementation answers by the visited mark, the
\* specified algorithm by classifying again) and marked a success node
C14_Witness ==
    /\ pc = "returned"
    /\ ~path.isnil
    /\ \E d \in seen : endClass[d] = "dead" /\ visits[d].entered = 2
    /\ \E t \in seen : endClass[t] = "end"

====
